---- MODULE Spec2Model ----
(***************************************************************************)
(* Model of the model-training page (two variants of the component App,    *)
(* both exported as ModelTrainingPage): CSV header normalization and       *)
(* column mapping, the pre-flight check, the row transformer and the       *)
(* asynchronous upload pipeline of handleStartTraining.                    *)
(*                                                                         *)
(* Strings whose characters the code inspects (CSV headers, cell values)   *)
(* are sequences of one-character strings.  Timestamps of log entries are  *)
(* left out: an entry is its message and the values interpolated in it.    *)
(***************************************************************************)
EXTENDS Integers, Sequences, FiniteSets, TLC

\* ------------------------------------------------------------------ bounds

MaxHeaderLen == 3
MaxRowCols == 2
MaxSubmissions == 2
MaxFileChanges == 2
MaxEdits == 1
MaxGuesses == 3
MaxSaves == 2
MaxTyped == 2

\* -------------------------------------------------------------- characters

LowerLetters ==
  {"a","b","c","d","e","f","g","h","i","j","k","l","m",
   "n","o","p","q","r","s","t","u","v","w","x","y","z"}

Digits == {"0","1","2","3","4","5","6","7","8","9"}

LowerOf ==
  [A |-> "a", B |-> "b", C |-> "c", D |-> "d", E |-> "e", F |-> "f",
   G |-> "g", H |-> "h", I |-> "i", J |-> "j", K |-> "k", L |-> "l",
   M |-> "m", N |-> "n", O |-> "o", P |-> "p", Q |-> "q", R |-> "r",
   S |-> "s", T |-> "t", U |-> "u", V |-> "v", W |-> "w", X |-> "x",
   Y |-> "y", Z |-> "z"]

UpperLetters == DOMAIN LowerOf

\* The characters String.prototype.trim removes, as far as the inputs hold them.
WhitespaceChars == {" ", "\t"}

\* ----------------------------------------------------------------- strings

RECURSIVE trimStart(_)
trimStart(s) ==
  IF s # <<>> /\ Head(s) \in WhitespaceChars THEN trimStart(Tail(s)) ELSE s

RECURSIVE trimEnd(_)
trimEnd(s) ==
  IF s # <<>> /\ s[Len(s)] \in WhitespaceChars
    THEN trimEnd(SubSeq(s, 1, Len(s) - 1))
    ELSE s

trim(s) == trimEnd(trimStart(s))

toLowerCase(s) ==
  [i \in 1..Len(s) |-> IF s[i] \in UpperLetters THEN LowerOf[s[i]] ELSE s[i]]

IsNotUnderscore(c) == c # "_"

stripUnderscores(s) == SelectSeq(s, IsNotUnderscore)

\* replace(/[^a-z0-9]/g, "")
IsAZ09(c) == c \in LowerLetters \cup Digits

stripNonAlnum(s) == SelectSeq(s, IsAZ09)

\* The JavaScript string a character sequence spells (used as a property key).
RECURSIVE Str(_)
Str(s) == IF s = <<>> THEN "" ELSE Head(s) \o Str(Tail(s))

\* ------------------------------------------------------------ column mapper

NORMALIZED_COLUMN_MAP ==
  [orbitalperioddays |-> "orbital_period_days",
   planetradiusrearth |-> "planet_radius_rearth",
   insolationfluxeflux |-> "insolation_flux_eflux",
   equilibriumtempk |-> "equilibrium_temp_K",
   stellarteffk |-> "stellar_teff_K",
   stellarloggcgs |-> "stellar_logg_cgs",
   stellarradiusrsun |-> "stellar_radius_rsun",
   stellarmag |-> "stellar_mag",
   radeg |-> "ra_deg",
   decdeg |-> "dec_deg",
   label |-> "label",
   source |-> "source",
   koiperiod |-> "orbital_period_days",
   koiprad |-> "planet_radius_rearth",
   koiinsol |-> "insolation_flux_eflux",
   koiteq |-> "equilibrium_temp_K",
   koisteff |-> "stellar_teff_K",
   koislogg |-> "stellar_logg_cgs",
   koisrad |-> "stellar_radius_rsun",
   koikepmag |-> "stellar_mag",
   koidisposition |-> "label",
   plorbper |-> "orbital_period_days",
   plrade |-> "planet_radius_rearth",
   plinsol |-> "insolation_flux_eflux",
   pleqt |-> "equilibrium_temp_K",
   stteff |-> "stellar_teff_K",
   stlogg |-> "stellar_logg_cgs",
   strad |-> "stellar_radius_rsun",
   sttmag |-> "stellar_mag",
   syvmag |-> "stellar_mag",
   tfopwgdisp |-> "label",
   disposition |-> "label",
   ra |-> "ra_deg",
   dec |-> "dec_deg"]

CanonicalFields == {NORMALIZED_COLUMN_MAP[k] : k \in DOMAIN NORMALIZED_COLUMN_MAP}

\* NORMALIZED_COLUMN_MAP is an object literal, so a property read also finds
\* what Object.prototype holds.  Of its property names only "constructor" can
\* be the result of the normalization (the others have capitals or
\* underscores); its value is the function Object, truthy, and as a property
\* key it is the text of that function.
ObjectPrototype == [constructor |-> "function Object() { [native code] }"]

Undefined == "undefined"

\* NORMALIZED_COLUMN_MAP[normalizedKey]
Lookup(key) ==
  IF key \in DOMAIN NORMALIZED_COLUMN_MAP THEN NORMALIZED_COLUMN_MAP[key]
  ELSE IF key \in DOMAIN ObjectPrototype THEN ObjectPrototype[key]
  ELSE Undefined

normalizedKey(header) == Str(stripNonAlnum(toLowerCase(trim(header))))

\* The column mapper: the dbKey of a header (Undefined: unmapped).
dbKeyOf(header) == Lookup(normalizedKey(header))


\* --------------------------------------------------------------- JS values

\* A cell value or an output value: a string (its characters), null, or a
\* number (the characters of its decimal text).
JsString(chars) == [t |-> "string", v |-> chars]

JsNull == [t |-> "null", v |-> <<>>]

JsNumber(chars) == [t |-> "number", v |-> chars]

\* typeof value === "string" && value.trim() === ""
isBlankString(value) == value.t = "string" /\ trim(value.v) = <<>>

\* !x for a property read that found x
Falsy(value) ==
  \/ value.t = "null"
  \/ value.t = "string" /\ value.v = <<>>
  \/ value.t = "number" /\ value.v \in {<<"0">>, <<"N","a","N">>}

\* obj[key] = value on an object held as a function from its keys
Put(obj, key, value) == (key :> value) @@ obj

EmptyObject == [k \in {} |-> JsNull]

uploaded_csv == <<"u","p","l","o","a","d","e","d","_","c","s","v">>

\* -------------------------------------------- row transformer (with the map)

\* The body of the for-in loop over one raw row, cell after cell.  A raw row
\* is the sequence of its cells in key order, each [key, value].
RECURSIVE mapCells(_, _)
mapCells(cells, mappedRow) ==
  IF cells = <<>> THEN mappedRow
  ELSE LET rawKey == Head(cells).key
           dbKey == Lookup(normalizedKey(rawKey))
           value == Head(cells).value
       IN mapCells(Tail(cells),
            IF dbKey # Undefined
              THEN Put(mappedRow, dbKey,
                       IF isBlankString(value) THEN JsNull ELSE value)
              ELSE mappedRow)

addSourceNever(mappedRow) == mappedRow

\* if (!mappedRow.source) mappedRow.source = "uploaded_csv"
addSource(mappedRow) ==
  IF "source" \notin DOMAIN mappedRow \/ Falsy(mappedRow["source"])
    THEN Put(mappedRow, "source", JsString(uploaded_csv))
    ELSE mappedRow

mappedRowOf(row) == addSource(mapCells(row, EmptyObject))

\* ----------------------------------------- row transformer (second variant)

RECURSIVE includesAt(_, _, _)
includesAt(s, sub, i) ==
  IF i + Len(sub) - 1 > Len(s) THEN FALSE
  ELSE SubSeq(s, i, i + Len(sub) - 1) = sub \/ includesAt(s, sub, i + 1)

includes(s, sub) == includesAt(s, sub, 1)

RECURSIVE digitPrefix(_)
digitPrefix(s) ==
  IF s # <<>> /\ Head(s) \in Digits THEN <<Head(s)>> \o digitPrefix(Tail(s))
  ELSE <<>>

\* parseFloat of a string: leading whitespace skipped, then the longest
\* prefix of digits with an optional fraction (signs and exponents do not
\* occur in the inputs drawn here); NaN when there is none.
parseFloat(chars) ==
  LET s == trimStart(chars)
      int == digitPrefix(s)
      rest == SubSeq(s, Len(int) + 1, Len(s))
      frac == IF rest # <<>> /\ Head(rest) = "." THEN digitPrefix(Tail(rest))
              ELSE <<>>
  IN IF int = <<>> /\ frac = <<>> THEN JsNumber(<<"N","a","N">>)
     ELSE IF frac = <<>> THEN JsNumber(int)
     ELSE JsNumber(int \o <<".">> \o frac)

feature == <<"f","e","a","t","u","r","e">>

data == <<"d","a","t","a">>

RECURSIVE cleanCells(_, _)
cleanCells(cells, cleanedRow) ==
  IF cells = <<>> THEN cleanedRow
  ELSE LET cleanedKey == trim(Head(cells).key)
           value == Head(cells).value
           lower == toLowerCase(cleanedKey)
       IN cleanCells(Tail(cells),
            IF cleanedKey = <<>> THEN cleanedRow
            ELSE IF isBlankString(value)
              THEN Put(cleanedRow, Str(cleanedKey), JsNull)
            ELSE IF includes(lower, feature) \/ includes(lower, data)
              THEN Put(cleanedRow, Str(cleanedKey),
                       IF parseFloat(value.v).v = <<"N","a","N">>
                         THEN JsNull ELSE parseFloat(value.v))
            ELSE Put(cleanedRow, Str(cleanedKey), value))

cleanedRowOf(row) == cleanCells(row, EmptyObject)

\* ------------------------------------------------------------- rowsToInsert

Variants == {"mapped", "plain"}

\* rawRows.map(...) of the variant at hand
RECURSIVE rowsToInsert(_, _)
rowsToInsert(v, parsedData) ==
  IF parsedData = <<>> THEN <<>>
  ELSE <<IF v = "mapped" THEN mappedRowOf(Head(parsedData))
         ELSE cleanedRowOf(Head(parsedData))>>
       \o rowsToInsert(v, Tail(parsedData))


\* ------------------------------------------------------------ CSV headers

H_koi_teq == <<"k","o","i","_","t","e","q">>

H_KOI_TEQ == <<"K","O","I","_","T","E","Q">>

H_pl_eqt == <<"p","l","_","e","q","t">>

H_ra == <<"r","a">>

H_source == <<"s","o","u","r","c","e">>

H_foo == <<"f","o","o">>

H_data == <<"d","a","t","a","1">>

H_constructor == <<"c","o","n","s","t","r","u","c","t","o","r">>

H_native == <<"f","u","n","c","t","i","o","n"," ","O","b","j","e","c","t","(",")"," ","{"," ","[","n","a","t","i","v","e"," ","c","o","d","e","]"," ","}">>

H_blank == <<" ">>

Cell(key, value) == [key |-> key, value |-> value]

\* ------------------------------------------------------------ files

\* What the user can pick: whether the name ends in ".csv", and what
\* Papa.parse(text, {header: true, skipEmptyLines: true, comments: "#"})
\* returns for the content: errors (their messages), meta.fields and data
\* (one sequence of cells per row, keyed by the fields).
NoFile == "null"

Files ==
  [kepler |->
     [csvName |-> TRUE, errors |-> <<>>, fields |-> <<H_koi_teq, H_foo>>,
      data |-> << <<Cell(H_koi_teq, JsString(<<>>)),
                    Cell(H_foo, JsString(<<"x">>))>>,
                  <<Cell(H_koi_teq, JsString(<<"3">>)),
                    Cell(H_foo, JsString(<<" ">>))>> >>],
   positions |->
     [csvName |-> TRUE, errors |-> <<>>, fields |-> <<H_ra, H_foo>>,
      data |-> << <<Cell(H_ra, JsString(<<"1">>)),
                    Cell(H_foo, JsString(<<"x">>))>> >>],
   ragged |->
     [csvName |-> TRUE,
      errors |-> <<"Too few fields", "Too many fields">>,
      fields |-> <<H_pl_eqt, H_foo>>,
      data |-> << <<Cell(H_pl_eqt, JsString(<<"3">>))>> >>],
   notes |->
     [csvName |-> FALSE, errors |-> <<>>, fields |-> <<H_KOI_TEQ, <<>> >>,
      data |-> << <<Cell(H_KOI_TEQ, JsString(<<"3">>)),
                    Cell(<<>>, JsString(<<>>))>> >>],
   coords |->
     [csvName |-> TRUE, errors |-> <<>>, fields |-> <<H_ra>>,
      data |-> << <<Cell(H_ra, JsString(<<"1">>))>> >>],
   objects |->
     [csvName |-> TRUE, errors |-> <<>>, fields |-> <<H_koi_teq, H_constructor>>,
      data |-> << <<Cell(H_koi_teq, JsString(<<"3">>)),
                    Cell(H_constructor, JsString(<<"x">>))>> >>]]

FileIds == DOMAIN Files

\* ------------------------------------------------------------ pre-flight

\* csvHeaders.forEach(...): the set of mapped dbKeys and the list of the
\* unmapped headers; an empty header is skipped.
RECURSIVE scanHeaders(_, _, _)
scanHeaders(csvHeaders, mappedHeaders, unmappedHeaders) ==
  IF csvHeaders = <<>>
    THEN [mappedHeaders |-> mappedHeaders, unmappedHeaders |-> unmappedHeaders]
  ELSE LET header == Head(csvHeaders)
           dbKey == Lookup(normalizedKey(header))
       IN IF header = <<>>
            THEN scanHeaders(Tail(csvHeaders), mappedHeaders, unmappedHeaders)
          ELSE IF dbKey # Undefined
            THEN scanHeaders(Tail(csvHeaders), mappedHeaders \cup {dbKey},
                             unmappedHeaders)
          ELSE scanHeaders(Tail(csvHeaders), mappedHeaders,
                           Append(unmappedHeaders, header))

preflightScan(csvHeaders) == scanHeaders(csvHeaders, {}, <<>>)

preflightPassesAnyColumn(csvHeaders) ==
  preflightScan(csvHeaders).mappedHeaders # {}

\* !mappedHeaders.has("equilibrium_temp_K") is the failure
preflightPasses(csvHeaders) ==
  "equilibrium_temp_K" \in preflightScan(csvHeaders).mappedHeaders

\* ------------------------------------------------------------ status log

Entry(msg, detail) == [msg |-> msg, detail |-> detail]

\* The messages of the first variant, without their emoji and their
\* interpolated values (those are an entry's detail).  The second variant words
\* MsgParsing, MsgMappedRows and MsgMetricsLoaded differently and logs them at
\* the same places.
MsgNoFile == "Error: Please select a file first"
MsgNotCsv == "Error: Please upload a .csv file"
MsgFileSelected == "File selected: "
MsgStarting == "Starting training process..."
MsgParsing == "Parsing CSV file..."
MsgParseError == "CSV parse error: "
MsgPreflight == "Running pre-flight check on CSV headers..."
MsgFound == "Found columns. Mapped."
MsgUnmapped == "Unmapped columns: "
MsgCritical == "CRITICAL ERROR: The CSV file does not contain a recognizable column for 'equilibrium_temp_K'."
MsgPleaseCheck == "Please check the 'Unmapped columns' list above"
MsgPreflightPassed == "Pre-flight check passed. All critical columns found."
MsgMappedRows == "Mapped rows. Uploading to Supabase..."
MsgInsertError == "Supabase table insert error: "
MsgUploadError == "Supabase table upload error: "
MsgUploaded == "Data uploaded to Supabase table."
MsgTrainingStart == "Uploading file and starting model training..."
MsgComplete == "Training complete! New model saved successfully."
MsgMetric == "Accuracy / F1 Score / Precision / Recall: "
MsgMetricsLoaded == "Detailed metrics loaded."
MsgError == "Error: "

\* The pre-flight entries appended to the log for these headers.
preflightEntries(csvHeaders) ==
  LET scan == preflightScan(csvHeaders)
  IN <<Entry(MsgPreflight, <<>>),
       Entry(MsgFound, <<Len(csvHeaders), Cardinality(scan.mappedHeaders)>>)>>
     \o (IF Len(scan.unmappedHeaders) > 0
           THEN <<Entry(MsgUnmapped, scan.unmappedHeaders)>> ELSE <<>>)
     \o (IF preflightPasses(csvHeaders)
           THEN <<Entry(MsgPreflightPassed, <<>>)>>
           ELSE <<Entry(MsgCritical, <<>>), Entry(MsgPleaseCheck, <<>>)>>)


\* ------------------------------------------------------------ state

VARIABLES
  variant,         \* which of the two components is the page
  selectedFile,    \* useState<File | null>: a file id or NoFile
  isTraining,      \* useState(false)
  trainingStatus,  \* useState<string[]>([]): the status log
  metricsJson,     \* useState<MetricsJson | null>(null)
  subs,            \* per call of handleStartTraining: where it is suspended
                   \* and what it did so far
  nsub,            \* submit events so far
  nfc,             \* file-input change events so far
  trainTestSplit,  \* useState(80): the slider's value
  form,            \* the value of each named input of the form (the DOM)
  nedit,           \* edits of the form's inputs and slider so far
  task,            \* transformer runs: "headers", "rows" or "none"
  hdrA, hdrB,      \* transformer runs: two CSV headers
  resA, resB,      \* transformer runs: what the column mapper gave for them
  rawRows,         \* transformer runs: the parsed rows
  rowsOut,         \* transformer runs: rowsToInsert
  mdone,           \* transformer runs: whether the functions were applied
  userGuess,       \* quiz: useState(null), the choice clicked
  score,           \* quiz: useState(0)
  username,        \* quiz: useState("")
  leaderboard,     \* quiz: useState([])
  saveMessage,     \* quiz: useState("")
  saveError,       \* quiz: useState("")
  saving,          \* quiz: useState(false)
  planetData,      \* quiz: useState([])
  currentPlanet,   \* quiz: useState(null)
  shuffledChoices, \* quiz: useState([])
  FAKE_LEADERBOARD, \* quiz: the mock client's array of scores
  mount,           \* quiz: where the mount effect is
  save,            \* quiz: where the call of saveScore is
  correct,         \* quiz: guesses that were the correct choice
  incorrect,       \* quiz: guesses that were not
  shown,           \* quiz: questions put on display so far
  ntyped,          \* quiz: changes of the username input so far
  nsaves           \* quiz: clicks on 'Save Score' so far

pageVars == <<selectedFile, isTraining, trainingStatus, metricsJson, subs,
              nsub, nfc, trainTestSplit, form, nedit>>

runVars == <<task, hdrA, hdrB, resA, resB, rawRows, rowsOut, mdone>>

gameVars == <<userGuess, score, username, leaderboard, saveMessage, saveError,
              saving, planetData, currentPlanet, shuffledChoices,
              FAKE_LEADERBOARD, mount, save, correct, incorrect, shown,
              ntyped, nsaves>>

vars == <<variant, pageVars, runVars, gameVars>>

Ids == 1..MaxSubmissions

MetricsNull == [null |-> TRUE, sub |-> 0]

MetricsOf(i) == [null |-> FALSE, sub |-> i]

NoConfig == [file |-> NoFile, train_test_split |-> "", fields |-> <<>>]

NoBody == [kind |-> "none", error |-> "", metrics |-> FALSE, metrics_json |-> FALSE]

\* A call of handleStartTraining: the file and trainTestSplit its closure
\* holds, the promise it awaits, the HTTP status of the response it holds, and
\* a record of what it did: the stages it entered, the asynchronous calls it
\* issued, how the bulk insert went, the rows it passed to the insert, what
\* the form held when the submit event fired, the body of the POST, the parsed
\* body of the response, the message of the error its training call threw,
\* how the file read settled, and how it ended.
BlankSub ==
  [file |-> NoFile, await |-> "none", status |-> 0, stages |-> <<>>,
   calls |-> <<>>, insert |-> "none", rows |-> <<>>, outcome |-> "idle",
   split |-> 0, held |-> NoConfig, sent |-> NoConfig, body |-> NoBody,
   thrown |-> "", text |-> "none"]

appendStatusStale(prev, message) == <<message>>

\* setTrainingStatus((prev) => [...prev, message])
appendStatus(prev, message) == Append(prev, message)

\* appendStatus called for messages[k], messages[k + 1], ... in turn
RECURSIVE appendFrom(_, _, _)
appendFrom(prev, messages, k) ==
  IF k > Len(messages) THEN prev
  ELSE appendFrom(appendStatus(prev, messages[k]), messages, k + 1)

appendAll(prev, messages) == appendFrom(prev, messages, 1)

SubmitAlwaysEnabled == TRUE

\* <button type="submit" disabled={isTraining}>
SubmitEnabled == ~isTraining

FormFieldNamesNoXgb ==
  {"cv_folds", "rf_estimators", "lgbm_estimators", "lgbm_max_depth",
   "learning_rate"}

\* The named inputs the form holds, and those the handler reads by name.
FormFieldNames ==
  {"cv_folds", "rf_estimators", "xgb_estimators", "lgbm_estimators",
   "xgb_max_depth", "lgbm_max_depth", "learning_rate"}

ReadFormFields ==
  {"cv_folds", "rf_estimators", "xgb_estimators", "lgbm_estimators",
   "xgb_max_depth", "lgbm_max_depth", "learning_rate"}

\* defaultValue of each HyperparameterInput
DefaultValues ==
  [cv_folds |-> "5", rf_estimators |-> "100", xgb_estimators |-> "100",
   lgbm_estimators |-> "100", xgb_max_depth |-> "15", lgbm_max_depth |-> "7",
   learning_rate |-> "0.05"]

\* The inputs as mounted.  HyperparameterInput is a component defined in the
\* body of App, a new function at every render of App, so at every render
\* React unmounts the inputs of the previous render and mounts new ones,
\* which hold their defaultValue.
MountedForm == [n \in FormFieldNames |-> DefaultValues[n]]

\* useState(80)
InitialSplit == 80

DigitText == <<"0", "1", "2", "3", "4", "5", "6", "7", "8", "9">>

\* (trainTestSplit / 100).toString() for the slider's range 50..90
splitText(percent) ==
  IF percent % 10 = 0 THEN "0." \o DigitText[(percent \div 10) + 1]
  ELSE "0." \o DigitText[(percent \div 10) + 1] \o DigitText[(percent % 10) + 1]

\* The body of the POST: the file, train_test_split and the named inputs'
\* values (formData of the first variant, fd of the second).
Config(file, split, fields) ==
  [file |-> file, train_test_split |-> split, fields |-> fields]

\* A render after a step that set React state to something new: the inputs
\* are mounted anew; without one the DOM keeps what the user typed.
Render ==
  form' = IF <<selectedFile, isTraining, trainingStatus, metricsJson,
               trainTestSplit>>' #
             <<selectedFile, isTraining, trainingStatus, metricsJson,
               trainTestSplit>>
            THEN MountedForm ELSE form

PageInit ==
  /\ selectedFile = NoFile
  /\ isTraining = FALSE
  /\ trainingStatus = <<>>
  /\ metricsJson = MetricsNull
  /\ subs = [i \in Ids |-> BlankSub]
  /\ nsub = 0
  /\ nfc = 0
  /\ trainTestSplit = InitialSplit
  /\ form = MountedForm
  /\ nedit = 0

RunIdle ==
  /\ task = "none"
  /\ hdrA = <<>>
  /\ hdrB = <<>>
  /\ resA = Undefined
  /\ resB = Undefined
  /\ rawRows = <<>>
  /\ rowsOut = <<>>
  /\ mdone = FALSE

\* ------------------------------------------------------------ planet quiz

\* FAKE_LEADERBOARD as the module sets it up.
InitialLeaderboard ==
  << [username |-> "CosmicExplorer", score |-> 1250],
     [username |-> "Stargazer_1", score |-> 1100],
     [username |-> "PlanetHunter_X", score |-> 980] >>

\* MOCK_PLANET_DATA: the fields the handlers read.
MOCK_PLANET_DATA ==
  << [planet_name |-> "Kepler-186 f",
      Choice1 |-> "It has rings like Saturn",
      Choice2_correct |-> "It is an Earth-sized planet in the habitable zone"],
     [planet_name |-> "TRAPPIST-1 e",
      Choice1 |-> "Three",
      Choice2_correct |-> "Seven"],
     [planet_name |-> "Proxima Centauri b",
      Choice1 |-> "Sirius",
      Choice2_correct |-> "Proxima Centauri"],
     [planet_name |-> "55 Cancri e",
      Choice1 |-> "The Water World",
      Choice2_correct |-> "The Diamond Planet"] >>

\* useState(null) of userGuess and of currentPlanet
NoGuess == "null"

NoPlanet == [planet_name |-> "null", Choice1 |-> "null", Choice2_correct |-> "null"]

NoUser == "null"

MsgEnterUsername == "Please enter a username before saving."
MsgHighScoreSaved == "New high score saved!"
MsgNotHighScore == "Score not saved - not a new high score"

\* A call of saveScore: where it is suspended, its name, the score and the
\* results its closure holds.
SaveIdle ==
  [pc |-> "idle", name |-> "", score |-> 0, existingScores |-> <<>>,
   existingUser |-> NoUser, data |-> <<>>]

\* The mount effect's call of loadTop3: where it is and the rows it awaits.
Unmounted == [pc |-> "unmounted", data |-> <<>>]

GameInit ==
  /\ userGuess = NoGuess
  /\ score = 0
  /\ username = <<>>
  /\ leaderboard = <<>>
  /\ saveMessage = ""
  /\ saveError = ""
  /\ saving = FALSE
  /\ planetData = <<>>
  /\ currentPlanet = NoPlanet
  /\ shuffledChoices = <<>>
  /\ FAKE_LEADERBOARD = InitialLeaderboard
  /\ mount = Unmounted
  /\ save = SaveIdle
  /\ correct = 0
  /\ incorrect = 0
  /\ shown = 0
  /\ ntyped = 0
  /\ nsaves = 0

Init ==
  /\ variant \in Variants
  /\ PageInit
  /\ RunIdle
  /\ GameInit

\* ------------------------------------------------------------ user events

\* The file input's onChange: the first variant stores the file or null; the
\* second (handleFileChange) ignores an empty choice, refuses a name that does
\* not end in ".csv", and logs the selection.
SelectFile ==
  /\ nfc < MaxFileChanges
  /\ nfc' = nfc + 1
  /\ \E f \in FileIds \cup {NoFile} :
       IF variant = "mapped"
         THEN /\ selectedFile' = f
              /\ form' = IF f = NoFile /\ selectedFile = NoFile
                            THEN form ELSE MountedForm
              /\ UNCHANGED trainingStatus
       ELSE IF f = NoFile
         THEN UNCHANGED <<selectedFile, trainingStatus, form>>
       ELSE IF ~Files[f].csvName
         THEN /\ trainingStatus' =
                   appendStatus(trainingStatus, Entry(MsgNotCsv, <<>>))
              /\ form' = MountedForm
              /\ UNCHANGED selectedFile
       ELSE /\ selectedFile' = f
            /\ form' = MountedForm
            /\ trainingStatus' =
                 appendStatus(trainingStatus, Entry(MsgFileSelected, <<f>>))
  /\ UNCHANGED <<variant, isTraining, metricsJson, subs, nsub, trainTestSplit,
                 nedit, runVars,
                 gameVars>>

SliderValues == {50, 80}

\* The range input's onChange: setTrainTestSplit(parseInt(e.target.value, 10))
MoveSlider ==
  /\ nedit < MaxEdits
  /\ nedit' = nedit + 1
  /\ \E value \in SliderValues \ {trainTestSplit} : trainTestSplit' = value
  /\ UNCHANGED <<variant, selectedFile, isTraining, trainingStatus, metricsJson,
                 subs, nsub, nfc, runVars,
                 gameVars>>
  /\ Render

EditedValues == {"9"}

\* The user types into one of the named inputs (uncontrolled: no handler
\* runs, the DOM holds the value).
EditField ==
  /\ nedit < MaxEdits
  /\ nedit' = nedit + 1
  /\ \E n \in FormFieldNames, value \in EditedValues :
       /\ form[n] # value
       /\ form' = [form EXCEPT ![n] = value]
  /\ UNCHANGED <<variant, selectedFile, isTraining, trainingStatus, metricsJson,
                 subs, nsub, nfc, trainTestSplit, runVars,
                 gameVars>>

noFileNever(file) == FALSE

\* !selectedFile
noFile(file) == file = NoFile

\* handleStartTraining up to its first await (selectedFile.text()).
Submit ==
  /\ SubmitEnabled
  /\ nsub < MaxSubmissions
  /\ nsub' = nsub + 1
  /\ LET i == nsub + 1
         kept == [j \in Ids |->
                    IF subs[j].await = "none" THEN BlankSub ELSE subs[j]]
     IN IF noFile(selectedFile)
          THEN /\ trainingStatus' =
                    appendStatus(trainingStatus, Entry(MsgNoFile, <<>>))
               /\ subs' = [subs EXCEPT ![i] =
                             [BlankSub EXCEPT !.outcome = "nofile"]]
               /\ UNCHANGED <<isTraining, metricsJson>>
          ELSE /\ isTraining' = TRUE
               /\ trainingStatus' =
                    appendAll(<<>>, <<Entry(MsgStarting, <<>>),
                                      Entry(MsgParsing, <<>>)>>)
               /\ metricsJson' = MetricsNull
               /\ subs' = [kept EXCEPT ![i] =
                             [BlankSub EXCEPT !.file = selectedFile,
                                              !.split = trainTestSplit,
                                              !.held = Config(selectedFile,
                                                         splitText(trainTestSplit),
                                                         form),
                                              !.await = "text",
                                              !.stages = <<"parsing">>,
                                              !.calls = <<"text">>,
                                              !.outcome = "running"]]
  /\ UNCHANGED <<variant, selectedFile, nfc, trainTestSplit, nedit, runVars,
                 gameVars>>
  /\ Render

\* ------------------------------------------------------------ continuations

\* The pre-flight check and the row transformer applied to each file's parse
\* result.
preflightOf ==
  [f \in FileIds |->
     [entries |-> preflightEntries(Files[f].fields),
      passes |-> preflightPasses(Files[f].fields)]]

rowsOf ==
  [f \in FileIds |->
     [mapped |-> rowsToInsert("mapped", Files[f].data),
      plain |-> rowsToInsert("plain", Files[f].data)]]

\* A return or a catch of the first try block: the entries, then
\* setIsTraining(false).
Halt(i, stages, entries, insert, text) ==
  /\ trainingStatus' = appendAll(trainingStatus, entries)
  /\ isTraining' = FALSE
  /\ subs' = [subs EXCEPT ![i].await = "none",
                          ![i].stages = @ \o stages \o <<"failed">>,
                          ![i].insert = insert,
                          ![i].text = text,
                          ![i].outcome = "failed"]
  /\ UNCHANGED metricsJson

parseFailedNever(errors) == FALSE

\* parsed.errors.length > 0
parseFailed(errors) == Len(errors) > 0

\* selectedFile.text() settled: parse, pre-flight check (first variant), row
\* transformer, and the call of supabase.from(...).insert(rowsToInsert).
\* supabase may be null (the client module gives null without its settings):
\* the call then throws inside the try block.
TextDone(i) ==
  /\ subs[i].await = "text"
  /\ UNCHANGED <<variant, selectedFile, nsub, nfc, trainTestSplit, nedit, runVars,
                 gameVars>>
  /\ \E res \in {"resolved", "rejected"}, client \in {"ready", "null"} :
       \E parsed \in {Files[subs[i].file]} :
       \E pre \in {IF variant = "mapped" THEN preflightOf[subs[i].file].entries
                   ELSE <<>>},
          passes \in {variant = "mapped" => preflightOf[subs[i].file].passes},
          rows \in {rowsOf[subs[i].file][variant]} :
       LET checked == IF variant = "mapped" THEN <<"validating">> ELSE <<>>
           mapped == <<Entry(MsgMappedRows, <<Len(rows)>>)>>
       IN IF res = "rejected"
            THEN Halt(i, <<>>, <<Entry(MsgUploadError, <<"NotReadableError">>)>>,
                      "none", "rejected")
          ELSE IF parseFailed(parsed.errors)
            THEN Halt(i, <<>>, <<Entry(MsgParseError, <<parsed.errors[1]>>)>>,
                      "none", "resolved")
          ELSE IF ~passes
            THEN /\ trainingStatus' = appendAll(trainingStatus, pre)
                 /\ isTraining' = FALSE
                 /\ subs' = [subs EXCEPT ![i].await = "none",
                                         ![i].stages = @ \o <<"validating", "failed">>,
                                         ![i].text = "resolved",
                                         ![i].outcome = "failed"]
                 /\ UNCHANGED metricsJson
          ELSE IF client = "null"
            THEN Halt(i, checked,
                      pre \o mapped \o <<Entry(MsgUploadError, <<"TypeError">>)>>,
                      "threw", "resolved")
          ELSE /\ trainingStatus' = appendAll(trainingStatus, pre \o mapped)
               /\ subs' = [subs EXCEPT ![i].await = "insert",
                                       ![i].stages = @ \o checked \o <<"bulk-inserting">>,
                                       ![i].calls = Append(@, "insert"),
                                       ![i].insert = "pending",
                                       ![i].text = "resolved",
                                       ![i].rows = rows]
               /\ UNCHANGED <<isTraining, metricsJson>>
  /\ Render

\* form.cv_folds.value, ...: the values the named inputs hold when read (the
\* second variant's new FormData(form) reads the same inputs).
readForm(fields) == [n \in ReadFormFields |-> fields[n]]

\* if (insertError) on the settled insert's result
insertErrorIgnored(res) == FALSE

insertError(res) == res = "error"

\* The insert settled: {error} set, a rejection, or success; on success the
\* form data is built (outside any try block) and the POST is issued.
InsertDone(i) ==
  /\ subs[i].await = "insert"
  /\ UNCHANGED <<variant, selectedFile, nsub, nfc, trainTestSplit, nedit, runVars,
                 gameVars>>
  /\ \E res \in {"ok", "error", "threw"} :
       IF insertError(res)
         THEN Halt(i, <<>>, <<Entry(MsgInsertError, <<"rejected rows">>)>>, "error",
                   "resolved")
       ELSE IF res = "threw"
         THEN Halt(i, <<>>, <<Entry(MsgUploadError, <<"network">>)>>, "threw",
                   "resolved")
       ELSE IF ReadFormFields \subseteq FormFieldNames
         THEN /\ trainingStatus' =
                   appendAll(trainingStatus, <<Entry(MsgUploaded, <<>>),
                                               Entry(MsgTrainingStart, <<>>)>>)
              /\ subs' = [subs EXCEPT ![i].await = "fetch",
                                      ![i].stages = Append(@, "submitting"),
                                      ![i].calls = Append(@, "fetch"),
                                      ![i].insert = res,
                                      ![i].sent = Config(subs[i].file,
                                                    splitText(subs[i].split),
                                                    readForm(form))]
              /\ UNCHANGED <<isTraining, metricsJson>>
       ELSE /\ trainingStatus' =
                 appendStatus(trainingStatus, Entry(MsgUploaded, <<>>))
            /\ subs' = [subs EXCEPT ![i].await = "none",
                                    ![i].insert = res,
                                    ![i].outcome = "threw"]
            /\ UNCHANGED <<isTraining, metricsJson>>
  /\ Render


\* What fetch and response.json() can give.
Statuses == {200, 500}

responseOkAnyStatus(status) == TRUE

responseOk(status) == status \in 200..299

FetchErrors == {"Failed to fetch", "Load failed"}

\* The parsed body: an object (error: "" when the field is absent or empty,
\* which data.error || ... treats alike), the JSON value null, or text that is
\* no JSON, for which response.json() rejects.
Bodies ==
  [kind : {"object"}, error : {"", "Failed to fetch", "Training failed"},
   metrics : BOOLEAN, metrics_json : BOOLEAN]
  \cup {[kind |-> k, error |-> "", metrics |-> FALSE, metrics_json |-> FALSE] :
          k \in {"null", "invalid"}}

\* The message the catch block of the training call logs; the first variant
\* logs nothing for the message "Failed to fetch".
catchEntries(errorMessage) ==
  IF variant = "mapped" /\ errorMessage = "Failed to fetch" THEN <<>>
  ELSE <<Entry(MsgError, <<errorMessage>>)>>

CatchTrainingRetrying(i, before, body, errorMessage) ==
  /\ trainingStatus' =
       appendAll(trainingStatus, before \o catchEntries(errorMessage))
  /\ subs' = [subs EXCEPT ![i].await = "fetch",
                          ![i].calls = Append(@, "fetch")]
  /\ UNCHANGED <<isTraining, metricsJson>>

\* catch and finally of the training call, after `before` was logged.
CatchTraining(i, before, body, errorMessage) ==
  /\ trainingStatus' =
       appendAll(trainingStatus, before \o catchEntries(errorMessage))
  /\ isTraining' = FALSE
  /\ subs' = [subs EXCEPT ![i].await = "none",
                          ![i].stages = Append(@, "failed"),
                          ![i].body = body,
                          ![i].thrown = errorMessage,
                          ![i].outcome = "failed"]
  /\ UNCHANGED metricsJson

\* fetch settled: a response (any status) or a rejection.
FetchDone(i) ==
  /\ subs[i].await = "fetch"
  /\ UNCHANGED <<variant, selectedFile, nsub, nfc, trainTestSplit, nedit, runVars,
                 gameVars>>
  /\ \/ \E status \in Statuses :
          /\ subs' = [subs EXCEPT ![i].await = "json",
                                  ![i].status = status,
                                  ![i].calls = Append(@, "json")]
          /\ UNCHANGED <<trainingStatus, isTraining, metricsJson>>
     \/ \E message \in FetchErrors : CatchTraining(i, <<>>, NoBody, message)
  /\ Render

\* The entries a 2xx response with this body appends.
successEntries(body) ==
  IF variant = "mapped"
    THEN <<Entry(MsgComplete, <<>>)>>
         \o (IF body.metrics_json THEN <<Entry(MsgMetricsLoaded, <<>>)>> ELSE <<>>)
    ELSE (IF body.metrics
            THEN <<Entry(MsgComplete, <<>>), Entry(MsgMetric, <<"accuracy">>),
                   Entry(MsgMetric, <<"f1_macro">>),
                   Entry(MsgMetric, <<"precision_macro">>),
                   Entry(MsgMetric, <<"recall_macro">>)>>
            ELSE <<>>)
         \o (IF body.metrics_json THEN <<Entry(MsgMetricsLoaded, <<>>)>> ELSE <<>>)

\* The message of the Error thrown for a response that is not ok.
httpErrorMessage(body, status) ==
  IF body.error # "" THEN body.error
  ELSE IF variant = "mapped" THEN "Unknown error occurred"
  ELSE "HTTP status"

\* response.json() settled, then the rest of the second try block.
JsonDone(i) ==
  /\ subs[i].await = "json"
  /\ UNCHANGED <<variant, selectedFile, nsub, nfc, trainTestSplit, nedit, runVars,
                 gameVars>>
  /\ \E body \in Bodies :
       LET ok == responseOk(subs[i].status) IN
       IF body.kind = "invalid"
         THEN CatchTraining(i, <<>>, body, "Unexpected token")
       ELSE IF body.kind = "null"
         THEN CatchTraining(i,
                IF ok /\ variant = "mapped" THEN <<Entry(MsgComplete, <<>>)>>
                ELSE <<>>,
                body, "Cannot read properties of null")
       ELSE IF ~ok
         THEN CatchTraining(i, <<>>, body,
                            httpErrorMessage(body, subs[i].status))
       ELSE /\ trainingStatus' = appendAll(trainingStatus, successEntries(body))
            /\ metricsJson' = IF body.metrics_json THEN MetricsOf(i)
                              ELSE metricsJson
            /\ isTraining' = FALSE
            /\ subs' = [subs EXCEPT ![i].await = "none",
                                    ![i].stages = Append(@, "complete"),
                                    ![i].body = body,
                                    ![i].outcome = "complete"]
  /\ Render

Settle == \E i \in Ids : TextDone(i) \/ InsertDone(i) \/ FetchDone(i) \/ JsonDone(i)

Next == SelectFile \/ MoveSlider \/ EditField \/ Submit \/ Settle

Spec == Init /\ [][Next]_vars

\* Every awaited call eventually resolves or rejects.
FairSpec == Spec /\ WF_vars(Settle)

\* ------------------------------------------------- runs of the pure functions

SeqsUpTo(S, n) == UNION {[1..k -> S] : k \in 0..n}

SmallAlphabet == {"r", "a", "R", " ", "_"}

NamedHeaders ==
  {H_koi_teq, H_KOI_TEQ, H_pl_eqt, H_ra, H_source, H_foo, H_data,
   H_constructor, H_native, H_blank,
   <<" ">> \o H_koi_teq \o <<"\t">>,
   <<"K","o","i","-","T","e","q">>,
   <<"k","o","i"," ","t","e","q",".">>,
   <<"k","o","i","t","e">>}

HeaderInputs == SeqsUpTo(SmallAlphabet, MaxHeaderLen) \cup NamedHeaders

RowHeaders ==
  {H_koi_teq, H_pl_eqt, H_source, H_foo, H_data, H_constructor, H_native}

CellValues == {JsString(<<>>), JsString(<<" ", "\t">>), JsString(<<"3">>)}

RowInputs ==
  UNION {{[j \in 1..k |-> Cell(ks[j], vs[j])] :
            ks \in {f \in [1..k -> RowHeaders] :
                      \A a, b \in 1..k : a # b => f[a] # f[b]},
            vs \in [1..k -> CellValues]} : k \in 0..MaxRowCols}

RunInit ==
  /\ variant \in Variants
  /\ PageInit
  /\ GameInit
  /\ resA = Undefined
  /\ resB = Undefined
  /\ rowsOut = <<>>
  /\ mdone = FALSE
  /\ \/ /\ task = "headers"
        /\ variant = "mapped"
        /\ hdrA \in HeaderInputs
        /\ hdrB \in HeaderInputs
        /\ rawRows = <<>>
     \/ /\ task = "rows"
        /\ hdrA = <<>>
        /\ hdrB = <<>>
        /\ rawRows \in {<<row>> : row \in RowInputs}

\* The column mapper applied to both headers.
MapHeaders ==
  /\ task = "headers"
  /\ ~mdone
  /\ resA' = dbKeyOf(hdrA)
  /\ resB' = dbKeyOf(hdrB)
  /\ mdone' = TRUE
  /\ UNCHANGED <<variant, pageVars, gameVars, task, hdrA, hdrB, rawRows, rowsOut>>

\* The row transformer applied to the parsed rows.
TransformRows ==
  /\ task = "rows"
  /\ ~mdone
  /\ rowsOut' = rowsToInsert(variant, rawRows)
  /\ mdone' = TRUE
  /\ UNCHANGED <<variant, pageVars, gameVars, task, hdrA, hdrB, resA, resB, rawRows>>

RunNext == MapHeaders \/ TransformRows

RunSpec == RunInit /\ [][RunNext]_vars


\* --------------------------------------------------- planet quiz: handlers

QuizInit ==
  /\ variant = "mapped"
  /\ PageInit
  /\ RunIdle
  /\ GameInit

\* ---- the mock supabase client

RECURSIVE insertDesc(_, _)
insertDesc(e, sorted) ==
  IF sorted = <<>> THEN <<e>>
  ELSE IF Head(sorted).score <= e.score THEN <<e>> \o sorted
  ELSE <<Head(sorted)>> \o insertDesc(e, Tail(sorted))

\* Array.prototype.sort((a, b) => b.score - a.score): stable, descending
RECURSIVE sortDesc(_)
sortDesc(entries) ==
  IF entries = <<>> THEN <<>>
  ELSE insertDesc(Head(entries), sortDesc(Tail(entries)))

\* .slice(0, 3)
slice3(entries) ==
  SubSeq(entries, 1, IF Len(entries) < 3 THEN Len(entries) ELSE 3)

\* select().eq(column, value).order().limit(): [{score: topScore}]
selectHighScore(entries, value) ==
  LET userScores == {entries[j].score :
                       j \in {a \in 1..Len(entries) : entries[a].username = value}}
      topScore == IF userScores # {}
                    THEN CHOOSE m \in userScores : \A n \in userScores : n <= m
                    ELSE 0
  IN << [score |-> topScore] >>

\* select().eq(column, value).single(): {id: value} or null
selectSingle(entries, value) ==
  IF \E j \in 1..Len(entries) : entries[j].username = value
    THEN value ELSE NoUser

\* insert(newData): what FAKE_LEADERBOARD is afterwards
insert(entries, newData) ==
  LET found == {j \in 1..Len(entries) : entries[j].username = newData.username}
  IN IF found # {}
       THEN LET existingUserIndex == CHOOSE j \in found : \A a \in found : j <= a
            IN IF newData.score > entries[existingUserIndex].score
                 THEN [entries EXCEPT ![existingUserIndex].score = newData.score]
                 ELSE entries
       ELSE Append(entries, [username |-> newData.username,
                             score |-> newData.score])

\* ---- the component

\* existingScores?.[0]?.score || 0
currentHighScore(existingScores) ==
  IF existingScores = <<>> \/ existingScores[1].score = 0
    THEN 0 ELSE existingScores[1].score

isNewHighScoreOrEqual(points, high) == points >= high

\* score > currentHighScore
isNewHighScore(points, high) == points > high

pointsNoPenalty(isCorrect) == IF isCorrect THEN 100 ELSE 0

\* isCorrect ? 100 : -50
pointsFor(isCorrect) == IF isCorrect THEN 100 ELSE -50

questionShownAlways == currentPlanet # NoPlanet

\* currentPlanet ? (userGuess === null ? <question and choice buttons> : ...)
questionShown == currentPlanet # NoPlanet /\ userGuess = NoGuess

\* ... : <result and 'Next Question' button>
resultShown == currentPlanet # NoPlanet /\ userGuess # NoGuess

\* disabled={saving || !username.trim()}
SaveEnabled == ~saving /\ trim(username) # <<>>

\* The mock's promises are settled when they are made, so the code after an
\* await is a microtask: it runs before the browser dispatches the next
\* user event.
UserTurn == mount.pc = "done" /\ save.pc = "idle"

setRandomPlanet(planets) ==
  IF Len(planets) = 0
    THEN UNCHANGED <<currentPlanet, shuffledChoices>>
    ELSE \E randomIndex \in 1..Len(planets) :
           LET planet == planets[randomIndex]
           IN /\ currentPlanet' = planet
              /\ shuffledChoices' \in
                   {<<planet.Choice1, planet.Choice2_correct>>,
                    <<planet.Choice2_correct, planet.Choice1>>}

\* loadTop3 after its await: setLeaderboard(data.map(...))
loadedLeaderboard(rows) ==
  [j \in 1..Len(rows) |-> [name |-> rows[j].username, score |-> rows[j].score]]

\* useEffect(..., []) up to the await in loadTop3
Mount ==
  /\ mount.pc = "unmounted"
  /\ planetData' = MOCK_PLANET_DATA
  /\ setRandomPlanet(MOCK_PLANET_DATA)
  /\ shown' = shown + 1
  /\ FAKE_LEADERBOARD' = sortDesc(FAKE_LEADERBOARD)
  /\ mount' = [pc |-> "loading", data |-> slice3(sortDesc(FAKE_LEADERBOARD))]
  /\ UNCHANGED <<variant, pageVars, runVars, userGuess, score, username,
                 leaderboard, saveMessage, saveError, saving, save, correct,
                 incorrect, ntyped, nsaves>>

MountLoadDone ==
  /\ mount.pc = "loading"
  /\ leaderboard' = loadedLeaderboard(mount.data)
  /\ mount' = [pc |-> "done", data |-> <<>>]
  /\ UNCHANGED <<variant, pageVars, runVars, userGuess, score, username,
                 saveMessage, saveError, saving, planetData, currentPlanet,
                 shuffledChoices, FAKE_LEADERBOARD, save, correct, incorrect,
                 shown, ntyped, nsaves>>

\* A click on one of the choice buttons.
handleGuess ==
  /\ UserTurn
  /\ questionShown
  /\ correct + incorrect < MaxGuesses
  /\ \E c \in 1..Len(shuffledChoices) :
       LET guess == shuffledChoices[c]
           isCorrect == guess = currentPlanet.Choice2_correct
       IN /\ userGuess' = guess
          /\ score' = score + pointsFor(isCorrect)
          /\ correct' = IF isCorrect THEN correct + 1 ELSE correct
          /\ incorrect' = IF isCorrect THEN incorrect ELSE incorrect + 1
  /\ UNCHANGED <<variant, pageVars, runVars, username, leaderboard,
                 saveMessage, saveError, saving, planetData, currentPlanet,
                 shuffledChoices, FAKE_LEADERBOARD, mount, save, shown,
                 ntyped, nsaves>>

\* A click on 'Next Question'.
resetGame ==
  /\ UserTurn
  /\ resultShown
  /\ userGuess' = NoGuess
  /\ setRandomPlanet(planetData)
  /\ shown' = shown + 1
  /\ UNCHANGED <<variant, pageVars, runVars, score, username, leaderboard,
                 saveMessage, saveError, saving, planetData,
                 FAKE_LEADERBOARD, mount, save, correct, incorrect, ntyped,
                 nsaves>>

U_ann == <<"a", "n", "n">>

U_CosmicExplorer ==
  <<"C", "o", "s", "m", "i", "c", "E", "x", "p", "l", "o", "r", "e", "r">>

Usernames ==
  {<<>>, <<" ">>, U_ann, <<" ">> \o U_ann \o <<" ">>, U_CosmicExplorer}

\* The username input's onChange.
TypeUsername ==
  /\ UserTurn
  /\ ntyped < MaxTyped
  /\ ntyped' = ntyped + 1
  /\ \E typed \in Usernames \ {username} : username' = typed
  /\ UNCHANGED <<variant, pageVars, runVars, userGuess, score, leaderboard,
                 saveMessage, saveError, saving, planetData, currentPlanet,
                 shuffledChoices, FAKE_LEADERBOARD, mount, save, correct,
                 incorrect, shown, nsaves>>

\* A click on 'Save Score': saveScore up to its first await.
saveScore ==
  /\ UserTurn
  /\ SaveEnabled
  /\ nsaves < MaxSaves
  /\ nsaves' = nsaves + 1
  /\ saveMessage' = ""
  /\ IF trim(username) = <<>>
       THEN /\ saveError' = MsgEnterUsername
            /\ UNCHANGED <<saving, save>>
       ELSE /\ saveError' = ""
            /\ saving' = TRUE
            /\ save' = [SaveIdle EXCEPT
                          !.pc = "scores",
                          !.name = Str(trim(username)),
                          !.score = score,
                          !.existingScores =
                             selectHighScore(FAKE_LEADERBOARD,
                                             Str(trim(username)))]
  /\ UNCHANGED <<variant, pageVars, runVars, userGuess, score, username,
                 leaderboard, planetData, currentPlanet, shuffledChoices,
                 FAKE_LEADERBOARD, mount, correct, incorrect, shown, ntyped>>

\* The user's high score arrived: the comparison, then the user lookup or
\* (no new high score) the message and the call of loadTop3.
SaveScoresDone ==
  /\ save.pc = "scores"
  /\ IF isNewHighScore(save.score, currentHighScore(save.existingScores))
       THEN /\ save' = [save EXCEPT
                          !.pc = "user",
                          !.existingUser =
                             selectSingle(FAKE_LEADERBOARD, save.name)]
            /\ UNCHANGED <<saveMessage, FAKE_LEADERBOARD>>
       ELSE /\ saveMessage' = MsgNotHighScore
            /\ FAKE_LEADERBOARD' = sortDesc(FAKE_LEADERBOARD)
            /\ save' = [save EXCEPT
                          !.pc = "load",
                          !.data = slice3(sortDesc(FAKE_LEADERBOARD))]
  /\ UNCHANGED <<variant, pageVars, runVars, userGuess, score, username,
                 leaderboard, saveError, saving, planetData, currentPlanet,
                 shuffledChoices, mount, correct, incorrect, shown, ntyped,
                 nsaves>>

\* The user lookup arrived: the call of insert.
SaveUserDone ==
  /\ save.pc = "user"
  /\ LET userId == IF save.existingUser = NoUser THEN save.name
                   ELSE save.existingUser
     IN FAKE_LEADERBOARD' =
          insert(FAKE_LEADERBOARD,
                 [user_id |-> userId, username |-> save.name,
                  score |-> save.score])
  /\ save' = [save EXCEPT !.pc = "insert"]
  /\ UNCHANGED <<variant, pageVars, runVars, userGuess, score, username,
                 leaderboard, saveMessage, saveError, saving, planetData,
                 currentPlanet, shuffledChoices, mount, correct, incorrect,
                 shown, ntyped, nsaves>>

\* The insert settled: the message and the call of loadTop3.
SaveInsertDone ==
  /\ save.pc = "insert"
  /\ saveMessage' = MsgHighScoreSaved
  /\ FAKE_LEADERBOARD' = sortDesc(FAKE_LEADERBOARD)
  /\ save' = [save EXCEPT !.pc = "load",
                          !.data = slice3(sortDesc(FAKE_LEADERBOARD))]
  /\ UNCHANGED <<variant, pageVars, runVars, userGuess, score, username,
                 leaderboard, saveError, saving, planetData, currentPlanet,
                 shuffledChoices, mount, correct, incorrect, shown, ntyped,
                 nsaves>>

\* loadTop3 after its await, called from saveScore.
SaveLoadDone ==
  /\ save.pc = "load"
  /\ leaderboard' = loadedLeaderboard(save.data)
  /\ save' = [save EXCEPT !.pc = "finally", !.data = <<>>]
  /\ UNCHANGED <<variant, pageVars, runVars, userGuess, score, username,
                 saveMessage, saveError, saving, planetData, currentPlanet,
                 shuffledChoices, FAKE_LEADERBOARD, mount, correct, incorrect,
                 shown, ntyped, nsaves>>

\* finally { setSaving(false) }
SaveFinally ==
  /\ save.pc = "finally"
  /\ saving' = FALSE
  /\ save' = SaveIdle
  /\ UNCHANGED <<variant, pageVars, runVars, userGuess, score, username,
                 leaderboard, saveMessage, saveError, planetData,
                 currentPlanet, shuffledChoices, FAKE_LEADERBOARD, mount,
                 correct, incorrect, shown, ntyped, nsaves>>

QuizSettle ==
  \/ MountLoadDone
  \/ SaveScoresDone
  \/ SaveUserDone
  \/ SaveInsertDone
  \/ SaveLoadDone
  \/ SaveFinally

QuizNext ==
  Mount \/ handleGuess \/ resetGame \/ TypeUsername \/ saveScore \/ QuizSettle

QuizSpec == QuizInit /\ [][QuizNext]_vars

\* The mount effect and every microtask run.
FairQuizSpec == QuizSpec /\ WF_vars(Mount) /\ WF_vars(QuizSettle)

\* ------------------------------------------------------------ properties

InSeq(x, s) == \E j \in 1..Len(s) : s[j] = x

IsPrefix(s, t) == Len(s) <= Len(t) /\ SubSeq(t, 1, Len(s)) = s

Started(i) == subs[i].outcome \in {"running", "complete", "failed", "threw"}

Running(i) == subs[i].await # "none"

TeqAliases ==
  {k \in DOMAIN NORMALIZED_COLUMN_MAP :
     NORMALIZED_COLUMN_MAP[k] = "equilibrium_temp_K"}

HasTeqAlias(fields) ==
  \E j \in 1..Len(fields) : normalizedKey(fields[j]) \in TeqAliases

\* C1: in the variant with NORMALIZED_COLUMN_MAP, a submission of a CSV none
\* of whose headers normalizes to an alias of equilibrium_temp_K issues
\* neither the bulk insert nor the training POST (nor anything after the
\* file read).
C1_PreflightHalts ==
  variant = "mapped" =>
    \A i \in Ids :
      Started(i) /\ ~HasTeqAlias(Files[subs[i].file].fields) =>
        /\ ~InSeq("insert", subs[i].calls)
        /\ ~InSeq("fetch", subs[i].calls)
        /\ subs[i].rows = <<>>

C1_Witness ==
  /\ variant = "mapped"
  /\ \E i \in Ids :
       /\ subs[i].file = "positions"
       /\ subs[i].stages = <<"parsing", "validating", "failed">>
       /\ subs[i].calls = <<"text">>
       /\ ~isTraining

\* C2: a submission whose bulk insert returned an error or threw never issues
\* the training POST; it has ended, failed, and isTraining is false.
C2_InsertFailureStops ==
  \A i \in Ids :
    subs[i].insert \in {"error", "threw"} =>
      /\ ~InSeq("fetch", subs[i].calls)
      /\ subs[i].await = "none"
      /\ subs[i].outcome = "failed"
      /\ ~isTraining

C2_Witness ==
  \E i \in Ids :
    /\ subs[i].insert = "error"
    /\ subs[i].calls = <<"text", "insert">>
    /\ subs[i].outcome = "failed"

StagePath ==
  <<"parsing", "validating", "bulk-inserting", "submitting", "complete">>

CallPath == <<"text", "insert", "fetch", "json">>

\* C3: in the variant with the pre-flight check, the stages of a submission
\* are a prefix of parsing, validating, bulk-inserting, submitting, complete,
\* possibly ended by failed; the calls are issued in the order file read,
\* insert, POST, body; the POST is issued only after the insert succeeded (so
\* the two are never pending together), and complete only after a 2xx
\* response.
C3_StagesInOrder ==
  variant = "mapped" =>
    \A i \in Ids :
      Started(i) =>
        LET st == subs[i].stages
            n == Len(st)
        IN /\ n >= 1
           /\ \/ IsPrefix(st, StagePath)
              \/ /\ st[n] = "failed"
                 /\ n <= Len(StagePath)
                 /\ IsPrefix(SubSeq(st, 1, n - 1), StagePath)
           /\ IsPrefix(subs[i].calls, CallPath)
           /\ subs[i].await = "text" => st = SubSeq(StagePath, 1, 1)
           /\ subs[i].await = "insert" =>
                st = SubSeq(StagePath, 1, 3) /\ subs[i].insert = "pending"
           /\ subs[i].await \in {"fetch", "json"} =>
                st = SubSeq(StagePath, 1, 4)
           /\ InSeq("fetch", subs[i].calls) => subs[i].insert = "ok"
           /\ InSeq("insert", subs[i].calls) => InSeq("validating", st)
           /\ subs[i].outcome = "complete" =>
                st = StagePath /\ subs[i].status \in 200..299
           /\ (n > 0 /\ st[n] = "complete") => subs[i].outcome = "complete"

C3_Witness ==
  /\ variant = "mapped"
  /\ \E i \in Ids :
       /\ subs[i].stages = StagePath
       /\ subs[i].calls = CallPath
       /\ subs[i].outcome = "complete"

\* C4: at most one submission is in flight; isTraining is true whenever a
\* file read, insert, POST or body read is pending; and while isTraining is
\* true no step is a submit event that starts or runs handleStartTraining.
C4_SingleFlight ==
  /\ [](Cardinality({i \in Ids : Running(i)}) <= 1)
  /\ []((\E i \in Ids : Running(i)) => isTraining)
  /\ [][isTraining => nsub' = nsub]_vars

C4_Witness ==
  /\ isTraining
  /\ selectedFile # NoFile
  /\ nsub < MaxSubmissions
  /\ \E i \in Ids : subs[i].await = "fetch"

\* C5: under the fairness of FairSpec (every awaited call settles), every
\* submission that started the pipeline reaches complete or failed with
\* isTraining false; no call of handleStartTraining ends by throwing, and
\* isTraining is true only while a call is suspended.
C5_Terminates ==
  /\ \A i \in Ids :
       (subs[i].outcome = "running") ~>
         (subs[i].outcome \in {"complete", "failed"} /\ ~isTraining)
  /\ [](\A i \in Ids : subs[i].outcome # "threw")
  /\ [](isTraining => \E i \in Ids : Running(i))

C5_Witness ==
  \E i \in Ids :
    /\ subs[i].outcome = "failed"
    /\ subs[i].calls = CallPath
    /\ subs[i].status = 500
    /\ ~isTraining


\* Some entry with message m1 is followed, later in the log, by one with m2.
FollowedBy(log, m1, m2) ==
  \E a, b \in 1..Len(log) : a < b /\ log[a].msg = m1 /\ log[b].msg = m2

HasMsg(log, m) == \E a \in 1..Len(log) : log[a].msg = m

\* The call of handleStartTraining i has ended after the training endpoint
\* answered with status 500 (the insert had succeeded).
Answered500(i) ==
  /\ subs[i].insert = "ok"
  /\ subs[i].status = 500
  /\ subs[i].await = "none"
  /\ subs[i].outcome # "idle"

\* C6: in the variant with NORMALIZED_COLUMN_MAP, once a submission whose
\* insert succeeded has ended on a 500 answer of the training endpoint, the
\* log holds the insert-success entry and, later, a training-error entry, no
\* 'Training complete' entry, and isTraining is false.
C6_Http500Logged ==
  variant = "mapped" =>
    \A i \in Ids :
      Answered500(i) =>
        /\ FollowedBy(trainingStatus, MsgUploaded, MsgError)
        /\ ~HasMsg(trainingStatus, MsgComplete)
        /\ ~isTraining

IsAlnumChar(c) == c \in LowerLetters \cup UpperLetters \cup Digits

SameLetter(c, d) ==
  \/ c = d
  \/ c \in UpperLetters /\ LowerOf[c] = d
  \/ d \in UpperLetters /\ LowerOf[d] = c

\* Two headers differ only in letter case, whitespace and punctuation: walking
\* both, skipping every non-alphanumeric character, the letters and digits
\* met are pairwise the same up to case.
RECURSIVE DifferOnlyInNoise(_, _)
DifferOnlyInNoise(a, b) ==
  IF a # <<>> /\ ~IsAlnumChar(Head(a)) THEN DifferOnlyInNoise(Tail(a), b)
  ELSE IF b # <<>> /\ ~IsAlnumChar(Head(b)) THEN DifferOnlyInNoise(a, Tail(b))
  ELSE IF a = <<>> \/ b = <<>> THEN a = <<>> /\ b = <<>>
  ELSE SameLetter(Head(a), Head(b)) /\ DifferOnlyInNoise(Tail(a), Tail(b))

\* C7: for two headers that differ only in letter case, whitespace or
\* punctuation, the column mapper gives the same result: the same canonical
\* field, or unmapped for both.
C7_MapperIgnoresNoise ==
  (task = "headers" /\ mdone /\ DifferOnlyInNoise(hdrA, hdrB)) => resA = resB

C7_Witness ==
  /\ task = "headers"
  /\ mdone
  /\ hdrA # hdrB
  /\ DifferOnlyInNoise(hdrA, hdrB)
  /\ resA = "equilibrium_temp_K"
  /\ resB = "equilibrium_temp_K"

\* C8: in a row transformed with the map, every mapped column whose raw value
\* is an empty or whitespace-only string (a column mapped to source
\* included) holds null under its canonical field.
C8_BlankBecomesNull ==
  (task = "rows" /\ mdone /\ variant = "mapped") =>
    \A r \in 1..Len(rawRows) : \A c \in 1..Len(rawRows[r]) :
      LET dbKey == dbKeyOf(rawRows[r][c].key) IN
      (dbKey # Undefined /\ isBlankString(rawRows[r][c].value)) =>
        (dbKey \in DOMAIN rowsOut[r] /\ rowsOut[r][dbKey] = JsNull)

\* C9: no transformed row has a key equal to a CSV header that the column
\* mapper does not map to a canonical field.
C9_UnmappedDropped ==
  (task = "rows" /\ mdone) =>
    \A r \in 1..Len(rawRows) : \A c \in 1..Len(rawRows[r]) :
      dbKeyOf(rawRows[r][c].key) \notin CanonicalFields =>
        Str(rawRows[r][c].key) \notin DOMAIN rowsOut[r]

\* C10: the header "koi_teq" maps to equilibrium_temp_K, and the row
\* {koi_teq: ""} is transformed to exactly
\* {equilibrium_temp_K: null, source: "uploaded_csv"}.
C10_KoiTeqScenario ==
  /\ (task = "headers" /\ mdone /\ hdrA = H_koi_teq) =>
       resA = "equilibrium_temp_K"
  /\ (task = "rows" /\ mdone /\ variant = "mapped"
        /\ rawRows = << <<Cell(H_koi_teq, JsString(<<>>))>> >>) =>
       /\ Len(rowsOut) = 1
       /\ DOMAIN rowsOut[1] = {"equilibrium_temp_K", "source"}
       /\ rowsOut[1]["equilibrium_temp_K"] = JsNull
       /\ rowsOut[1]["source"] = JsString(uploaded_csv)

C10_Witness ==
  /\ task = "rows"
  /\ mdone
  /\ variant = "mapped"
  /\ rawRows = << <<Cell(H_koi_teq, JsString(<<>>))>> >>
  /\ rowsOut = <<[equilibrium_temp_K |-> JsNull, source |-> JsString(uploaded_csv)]>>

\* Submission i is the one whose entries the log holds: no later submission
\* has emptied the log since.
Latest(i) == Started(i) /\ \A j \in Ids : j > i => ~Started(j)

ReachedPreflight(i) == InSeq("validating", subs[i].stages)

\* C11: in the variant with the pre-flight check, a submission that reached
\* the check with a CSV without an alias of equilibrium_temp_K stops there
\* having issued no insert and no POST, and its log holds an 'Unmapped
\* columns' entry.
C11_UnmappedListed ==
  variant = "mapped" =>
    \A i \in Ids :
      (Latest(i) /\ ReachedPreflight(i)
         /\ ~HasTeqAlias(Files[subs[i].file].fields)) =>
        /\ subs[i].outcome = "failed"
        /\ subs[i].calls = <<"text">>
        /\ HasMsg(trainingStatus, MsgUnmapped)

\* C12: the body of the POST of a submission holds, for the file,
\* train_test_split and every named hyperparameter input, the value the form
\* held when the submit event fired.
C12_SnapshotSent ==
  \A i \in Ids :
    InSeq("fetch", subs[i].calls) => subs[i].sent = subs[i].held

\* A step of a submit event that found a file selected: the one step that
\* empties the log.
ResetStep == nsub' # nsub /\ selectedFile # NoFile

\* C13: apart from the reset at the start of a submission, every step (of
\* the pipeline, of a file selection, of an edit of the form, in any
\* interleaving) leaves the previous log an unchanged prefix of the new log.
C13_AppendOnly ==
  [][~ResetStep => IsPrefix(trainingStatus, trainingStatus')]_vars

C13_Witness ==
  /\ variant = "plain"
  /\ FollowedBy(trainingStatus, MsgParsing, MsgFileSelected)
  /\ FollowedBy(trainingStatus, MsgFileSelected, MsgTrainingStart)
  /\ FollowedBy(trainingStatus, MsgTrainingStart, MsgError)

\* C14: every submit of the form leaves a log that holds no entry of before
\* the submit (the log was emptied before the submit's own entries were
\* appended) and leaves metricsJson null.
C14_ResetAtSubmit ==
  [][nsub' # nsub =>
       /\ metricsJson' = MetricsNull
       /\ trainingStatus # <<>> => ~IsPrefix(trainingStatus, trainingStatus')]_vars

\* C15: every step in which a submission moves through stages of the upload
\* state machine appends at least one log entry per stage entered (on the
\* submit step: the emptied log holds at least one entry).
C15_TransitionsLogged ==
  [][\A i \in Ids :
       Len(subs'[i].stages) > Len(subs[i].stages) =>
         IF ResetStep
           THEN Len(trainingStatus') >= Len(subs'[i].stages)
           ELSE Len(trainingStatus') - Len(trainingStatus) >=
                  Len(subs'[i].stages) - Len(subs[i].stages)]_vars

ErrorMsgs ==
  {MsgParseError, MsgCritical, MsgInsertError, MsgUploadError, MsgError}

HasErrorEntry(log) == \E a \in 1..Len(log) : log[a].msg \in ErrorMsgs

\* C16: the log of a failed submission holds an error entry, unless the
\* failure is an error of the training call whose message is exactly
\* "Failed to fetch", and then it holds none.
C16_FailuresLogged ==
  \A i \in Ids :
    (Latest(i) /\ subs[i].outcome = "failed") =>
      (HasErrorEntry(trainingStatus) <=> subs[i].thrown # "Failed to fetch")

\* C17: the calls a submission issues are a prefix of file read, bulk insert,
\* POST, body read: the insert and the POST are issued at most once each,
\* whatever their outcomes, and nothing else is issued.
C17_NoRetry ==
  \A i \in Ids : Started(i) => IsPrefix(subs[i].calls, CallPath)

C17_Witness ==
  \E i \in Ids :
    /\ subs[i].thrown = "Load failed"
    /\ subs[i].calls = <<"text", "insert", "fetch">>
    /\ subs[i].outcome = "failed"
    /\ ~isTraining

\* C18: once a submission has ended on a response that is not 2xx and whose
\* body is a JSON object, metricsJson is null, the log holds no 'Training
\* complete' entry, and it holds an error entry with the body's error field
\* when there is one, with the fallback text otherwise.
C18_Non2xxFails ==
  \A i \in Ids :
    (Latest(i) /\ subs[i].await = "none" /\ subs[i].body.kind = "object"
       /\ subs[i].status \notin 200..299) =>
      /\ metricsJson = MetricsNull
      /\ ~HasMsg(trainingStatus, MsgComplete)
      /\ InSeq(Entry(MsgError,
                     <<IF subs[i].body.error # "" THEN subs[i].body.error
                       ELSE IF variant = "mapped" THEN "Unknown error occurred"
                       ELSE "HTTP status">>),
               trainingStatus)

\* C19: metricsJson is non-null only if the latest submission that started
\* the pipeline parsed its CSV, passed the pre-flight check (where there is
\* one) and the insert, and completed on a 2xx response whose body held
\* metrics_json; it is null while that submission is in flight and after
\* it failed.
C19_MetricsOnlyAfterSuccess ==
  /\ ~metricsJson.null =>
        \E i \in Ids :
          /\ metricsJson = MetricsOf(i)
          /\ Latest(i)
          /\ subs[i].outcome = "complete"
          /\ Files[subs[i].file].errors = <<>>
          /\ variant = "mapped" => ReachedPreflight(i)
          /\ subs[i].insert = "ok"
          /\ subs[i].status \in 200..299
          /\ subs[i].body.kind = "object" /\ subs[i].body.metrics_json
  /\ \A i \in Ids :
       (Latest(i) /\ (Running(i) \/ subs[i].outcome = "failed")) =>
         metricsJson = MetricsNull

C19_Witness ==
  /\ ~metricsJson.null
  /\ ~isTraining
  /\ \E i \in Ids : subs[i].outcome = "nofile"

\* C20: in the variant with the pre-flight check, once a submission has
\* reached the check, every header of its CSV that the column mapper does not
\* map to a canonical field is listed in an 'Unmapped columns' entry of the
\* log.
C20_UnmappedReported ==
  variant = "mapped" =>
    \A i \in Ids :
      (Latest(i) /\ ReachedPreflight(i)) =>
        LET fields == Files[subs[i].file].fields IN
        \A k \in 1..Len(fields) :
          dbKeyOf(fields[k]) \notin CanonicalFields =>
            \E a \in 1..Len(trainingStatus) :
              /\ trainingStatus[a].msg = MsgUnmapped
              /\ InSeq(fields[k], trainingStatus[a].detail)

\* C21: when the CSV parser reports at least one error, the submission appends
\* an error entry with the parser's first reported message and ends failed
\* with isTraining false, having run no pre-flight check and no row
\* transformer and issued no insert and no POST.
C21_ParseErrorHalts ==
  \A i \in Ids :
    (Latest(i) /\ subs[i].text = "resolved"
       /\ Len(Files[subs[i].file].errors) > 0) =>
      /\ InSeq(Entry(MsgParseError, <<Files[subs[i].file].errors[1]>>),
               trainingStatus)
      /\ subs[i].outcome = "failed"
      /\ ~isTraining
      /\ ~ReachedPreflight(i)
      /\ ~HasMsg(trainingStatus, MsgPreflight)
      /\ ~HasMsg(trainingStatus, MsgMappedRows)
      /\ subs[i].rows = <<>>
      /\ subs[i].calls = <<"text">>

C21_Witness ==
  \E i \in Ids :
    /\ Latest(i)
    /\ subs[i].file = "ragged"
    /\ subs[i].text = "resolved"
    /\ subs[i].outcome = "failed"
    /\ trainingStatus[Len(trainingStatus)] =
         Entry(MsgParseError, <<"Too few fields">>)

\* C22: a Start Training submission with no file selected appends exactly one
\* entry, the no-file error, leaves isTraining false and metricsJson as it
\* was, and issues no file read, no insert and no POST.
C22_NoFileSubmit ==
  [][(nsub' # nsub /\ selectedFile = NoFile) =>
       /\ trainingStatus' = Append(trainingStatus, Entry(MsgNoFile, <<>>))
       /\ ~isTraining /\ ~isTraining'
       /\ metricsJson' = metricsJson
       /\ \A i \in Ids : subs'[i].calls = subs[i].calls
       /\ subs'[nsub'].calls = <<>>]_vars

C22_Witness ==
  /\ variant = "mapped"
  /\ nfc > 0
  /\ selectedFile = NoFile
  /\ nsub > 0
  /\ subs[nsub].outcome = "nofile"
  /\ trainingStatus[Len(trainingStatus)] = Entry(MsgNoFile, <<>>)

\* C23: every row transformed with the map has a source field: the row's own
\* value (null for a blank one) when one of its columns maps to source, and
\* "uploaded_csv" only when none does.
C23_SourceOnlyWhenAbsent ==
  (task = "rows" /\ mdone /\ variant = "mapped") =>
    \A r \in 1..Len(rawRows) :
      LET own == {c \in 1..Len(rawRows[r]) :
                    dbKeyOf(rawRows[r][c].key) = "source"}
      IN /\ "source" \in DOMAIN rowsOut[r]
         /\ \A c \in own :
              \/ rowsOut[r]["source"] = rawRows[r][c].value
              \/ /\ isBlankString(rawRows[r][c].value)
                 /\ rowsOut[r]["source"] = JsNull
         /\ own = {} => rowsOut[r]["source"] = JsString(uploaded_csv)

\* C24: the keys of a row transformed with the map are exactly the canonical
\* fields that some key of the raw row maps to, and source.
C24_KeysAreMappedFields ==
  (task = "rows" /\ mdone /\ variant = "mapped") =>
    \A r \in 1..Len(rawRows) :
      DOMAIN rowsOut[r] =
        {dbKeyOf(rawRows[r][c].key) :
           c \in {d \in 1..Len(rawRows[r]) :
                    dbKeyOf(rawRows[r][d].key) \in CanonicalFields}}
        \cup {"source"}

\* A step of handleGuess: the displayed question gets its answer.
GuessStep == userGuess = NoGuess /\ userGuess' # NoGuess

\* A step of resetGame (the mount effect also puts a question on display).
NextQuestionStep == shown' # shown /\ mount.pc # "unmounted"

\* C25: the quiz alternates between the question state (userGuess null) and
\* the result state: a guess is taken only in the question state and leads to
\* the result state, 'Next Question' acts only in the result state and leads
\* to the question state with a current planet drawn from the planet data,
\* and no question put on display is scored more than once.
C25_QuestionResultAlternate ==
  /\ [](correct + incorrect =
          IF mount.pc = "unmounted" THEN 0
          ELSE IF userGuess = NoGuess THEN shown - 1 ELSE shown)
  /\ [][/\ (correct' + incorrect' # correct + incorrect \/ score' # score) =>
            /\ userGuess = NoGuess
            /\ currentPlanet # NoPlanet
            /\ userGuess' # NoGuess
            /\ currentPlanet' = currentPlanet
            /\ correct' + incorrect' = correct + incorrect + 1
        /\ NextQuestionStep =>
            /\ userGuess # NoGuess
            /\ userGuess' = NoGuess
            /\ \E j \in 1..Len(planetData) : currentPlanet' = planetData[j]
        /\ userGuess' # userGuess =>
            \/ GuessStep /\ shown' = shown
            \/ NextQuestionStep]_vars

C25_Witness ==
  /\ shown = 2
  /\ userGuess # NoGuess
  /\ correct + incorrect = 2
  /\ currentPlanet = MOCK_PLANET_DATA[2]

\* C26: the score is 100 times the correct guesses minus 50 times the
\* incorrect ones: handleGuess adds 100 when the guess is the current
\* planet's correct choice and subtracts 50 otherwise, and resetGame,
\* saveScore and the loading of the leaderboard leave the score as it is.
C26_ScoreArithmetic ==
  /\ [](score = 100 * correct - 50 * incorrect)
  /\ [][IF GuessStep
          THEN score' = score + (IF userGuess' = currentPlanet.Choice2_correct
                                   THEN 100 ELSE -50)
          ELSE score' = score]_vars

C26_Witness ==
  /\ correct = 1
  /\ incorrect = 1
  /\ score = 50
  /\ shown = 3
  /\ nsaves > 0
  /\ save.pc = "idle"
  /\ leaderboard # <<>>

\* The highest score FAKE_LEADERBOARD holds for a username, 0 when none.
StoredScore(entries, u) ==
  LET held == {entries[j].score :
                 j \in {a \in 1..Len(entries) : entries[a].username = u}}
  IN IF held = {} THEN 0 ELSE CHOOSE m \in held : \A n \in held : n <= m

StoredNames(entries) == {entries[j].username : j \in 1..Len(entries)}

StoredEntries(entries) == {entries[j] : j \in 1..Len(entries)}

InsertStep == save.pc = "user" /\ save'.pc = "insert"

\* C27: saveScore calls insert only when the trimmed username is not empty
\* and the current score is strictly greater than the high score stored for
\* that username (0 when none); otherwise nothing is inserted; a call that
\* sets saving true sets it back to false; and the stored score of a username
\* never decreases.
C27_SaveOnlyHigherScores ==
  /\ [][/\ InsertStep =>
            /\ trim(username) # <<>>
            /\ save.name = Str(trim(username))
            /\ score > StoredScore(FAKE_LEADERBOARD, save.name)
            /\ StoredScore(FAKE_LEADERBOARD', save.name) = score
        /\ (save.pc = "scores"
              /\ ~(score > StoredScore(FAKE_LEADERBOARD, save.name))) =>
            save'.pc = "load"
        /\ StoredEntries(FAKE_LEADERBOARD') # StoredEntries(FAKE_LEADERBOARD)
             => InsertStep
        /\ \A u \in StoredNames(FAKE_LEADERBOARD) :
             StoredScore(FAKE_LEADERBOARD', u)
               >= StoredScore(FAKE_LEADERBOARD, u)]_vars
  /\ (saving ~> ~saving)

C27_Witness ==
  /\ \E j \in 1..Len(FAKE_LEADERBOARD) :
       FAKE_LEADERBOARD[j] = [username |-> "ann", score |-> 200]
  /\ ~saving
  /\ save.pc = "idle"
  /\ saveMessage = MsgHighScoreSaved
  /\ nsaves = 2

\* C28: in the variant with the pre-flight check, whenever the bulk insert is
\* issued the pre-flight check has passed and every row handed to the insert
\* has the key equilibrium_temp_K (its value may be null).
C28_PreflightAgreesWithRows ==
  variant = "mapped" =>
    \A i \in Ids :
      InSeq("insert", subs[i].calls) =>
        /\ ReachedPreflight(i)
        /\ HasTeqAlias(Files[subs[i].file].fields)
        /\ \A r \in 1..Len(subs[i].rows) :
             "equilibrium_temp_K" \in DOMAIN subs[i].rows[r]

C28_Witness ==
  /\ variant = "mapped"
  /\ \E i \in Ids :
       /\ InSeq("insert", subs[i].calls)
       /\ subs[i].file = "kepler"
       /\ Len(subs[i].rows) = 2
       /\ "equilibrium_temp_K" \in DOMAIN subs[i].rows[2]
       /\ subs[i].rows[1].equilibrium_temp_K = JsNull

====
